---- MODULE Spec2Model ----
(***************************************************************************)
(* QWV0Fitter (src/src/QWV0Fitter.cc): the V0 candidate finder.            *)
(*                                                                         *)
(* The model follows QWV0Fitter::fitAll statement by statement: track      *)
(* preselection, the double loop over preselected tracks, the proximity    *)
(* screening of a pair, the vertex fit, the vertex validation and the      *)
(* mass-hypothesis builder.                                                *)
(*                                                                         *)
(* Numbers.  Masses, momenta and energies are integers in units of 10 MeV; *)
(* lengths and all other quantities are integers in their own units.       *)
(* sqrt is the integer square root.  Every floating-point comparison of    *)
(* the source is modelled by the exact integer inequality it decides,      *)
(* including the IEEE outcomes of a division by zero: x/0 is +inf for      *)
(* x > 0 and 0/0 is NaN, and every ordered comparison with NaN is false.   *)
(* Sequences are indexed from 1: track key k is element k-1 of the C++     *)
(* collection, and the loop indices trdx1, trdx2 are one more than in C++. *)
(***************************************************************************)
EXTENDS Integers, Sequences, FiniteSets, TLC

\* The largest track collection of an event.
MaxTracks == 3

----------------------------------------------------------------------------
\* pdg mass constants (units of 10 MeV)
piMass == 14
piMassSquared == piMass * piMass
protonMass == 94
protonMassSquared == protonMass * protonMass
kaonMass == 49
kaonMassSquared == kaonMass * kaonMass
kShortMass == 50
lambdaMass == 112
D0Mass == 186

\* the fiducial cylinder of the crossing point
FiducialR == 120
FiducialZ == 300

----------------------------------------------------------------------------
\* vectors, matrices, arithmetic

Abs(x) == IF x < 0 THEN -x ELSE x

Dot(a, b) == a[1] * b[1] + a[2] * b[2] + a[3] * b[3]

Mag2(a) == Dot(a, a)

VAdd(a, b) == <<a[1] + b[1], a[2] + b[2], a[3] + b[3]>>

VSub(a, b) == <<a[1] - b[1], a[2] - b[2], a[3] - b[3]>>

Diag(a, b, c) == <<<<a, 0, 0>>, <<0, b, 0>>, <<0, 0, c>>>>

MatAdd(A, B) == [i \in 1..3 |-> [j \in 1..3 |-> A[i][j] + B[i][j]]]

\* ROOT::Math::Similarity(C, v): the quadratic form v^T C v
Similarity(C, v) ==
    LET row(i) == v[i] * (C[i][1] * v[1] + C[i][2] * v[2] + C[i][3] * v[3])
    IN  row(1) + row(2) + row(3)

\* the largest r in lo..hi with r * r <= n, by bisection
RECURSIVE SqrtBetween(_, _, _)
SqrtBetween(n, lo, hi) ==
    IF lo = hi THEN lo
    ELSE LET mid == (lo + hi + 1) \div 2
         IN  IF mid * mid <= n THEN SqrtBetween(n, mid, hi)
             ELSE SqrtBetween(n, lo, mid - 1)

\* sqrt of a non-negative number, rounded down to the unit of the model
ISqrt(n) == SqrtBetween(n, 0, n)

\* sqrt(p^2 + m^2): the energy of a momentum under a rest mass
Energy(p, massSquared) == ISqrt(Mag2(p) + massSquared)

\* LorentzVector <<px, py, pz, E>>
P4(p, e) == <<p[1], p[2], p[3], e>>

P4Add(a, b) == <<a[1] + b[1], a[2] + b[2], a[3] + b[3], a[4] + b[4]>>

\* E^2 - p^2; LorentzVector::M() is its square root, negative when it is negative
M2(q) == q[4] * q[4] - (q[1] * q[1] + q[2] * q[2] + q[3] * q[3])

\* mass() < b and mass() > b, decided on the squares
MassLT(m2, b) ==
    IF b > 0 THEN m2 < 0 \/ m2 < b * b
    ELSE m2 < 0 /\ -m2 > b * b

MassGT(m2, b) ==
    IF b >= 0 THEN m2 >= 0 /\ m2 > b * b
    ELSE m2 >= 0 \/ -m2 < b * b

\* std::abs(n / d) > cut, cut >= 0:  0/0 is NaN (false), n/0 is +inf (true)
AbsRatioGT(n, d, cut) ==
    IF d = 0 THEN n # 0
    ELSE Abs(n) > cut * Abs(d)

----------------------------------------------------------------------------
\* the tracks of an event

Track(q, chi2, hits, ptv, dxy, dxyErr, dzv, dzErr) ==
    [charge |-> q, helix |-> 1, normalizedChi2 |-> chi2, numberOfValidHits |-> hits,
     pt |-> ptv, dxyBS |-> dxy, dxyPV |-> dxy, dxyError |-> dxyErr,
     dzBS |-> dzv, dzPV |-> dzv, dzError |-> dzErr]

\* tracks that pass the preselection of the nominal cuts
PosTrack == Track(1, 4, 3, 2, 3, 1, -3, 1)
PosTrack2 == [PosTrack EXCEPT !.helix = 2]
NegTrack == Track(-1, 0, 5, 3, -3, 1, 3, 1)
NeutralTrack == Track(0, 4, 3, 2, 3, 1, 3, 1)
\* dxyError = 0 with dxy # 0: the significance is +inf and passes
InfSigTrack == Track(1, 4, 3, 2, 3, 0, 3, 1)

\* tracks that fail exactly one condition, each at its boundary
BadChi2Track == Track(-1, 5, 3, 2, 3, 1, 3, 1)
BadHitsTrack == Track(-1, 4, 2, 2, 3, 1, 3, 1)
BadPtTrack == Track(-1, 4, 3, 1, 3, 1, 3, 1)
BadIPXYTrack == Track(-1, 4, 3, 2, -2, 1, 3, 1)
\* dz = 0 and dzError = 0: the significance is NaN
BadIPZTrack == Track(-1, 4, 3, 2, 3, 1, 0, 0)
\* passes against the beam spot, fails against the primary vertex
BadIPXYPVTrack == [PosTrack EXCEPT !.dxyPV = 2]

GoodKinds == {PosTrack, PosTrack2, NegTrack}

AllKinds == {PosTrack, NegTrack, NeutralTrack, InfSigTrack, BadChi2Track, BadHitsTrack,
             BadPtTrack, BadIPXYTrack, BadIPZTrack, BadIPXYPVTrack}

\* every sequence over S of length at most n
SeqsUpTo(S, n) == UNION {[1..k -> S] : k \in 0..n}

----------------------------------------------------------------------------
\* the reference positions of an event

BeamSpot == [position |-> <<0, 0, 0>>, covariance |-> Diag(1, 1, 1)]

PrimaryVertex == [position |-> <<1, 0, 0>>, covariance |-> Diag(1, 1, 1)]

----------------------------------------------------------------------------
(* What the external services answer for one pair of trajectories: the     *)
(* impact-point states, ClosestApproachInRPhi, the states at the crossing  *)
(* point, the vertex fit and the states at the fitted vertex.  The answers *)
(* are a function of the two trajectories (their helix), so a pair gets    *)
(* the same answers every time it is asked about.                          *)

RefTrack(q, mom) == [charge |-> q, valid |-> TRUE, p |-> mom]

\* every cut met, each of the inclusive ones at its boundary; K-short mass
Nominal ==
    [posImpactValid |-> TRUE, negImpactValid |-> TRUE,
     cAppStatus |-> TRUE, distance |-> -1, crossingPoint |-> <<120, 0, -300>>,
     posTSCPValid |-> TRUE, negTSCPValid |-> TRUE,
     posPcx |-> <<1, 21, 0>>, negPcx |-> <<1, -21, 0>>,
     vtxValid |-> TRUE, chi2 |-> 14, ndof |-> 2,
     position |-> <<4, 0, 0>>, covariance |-> Diag(1, 1, 1),
     refTracks |-> <<RefTrack(1, <<1, 21, 0>>), RefTrack(-1, <<1, -21, 0>>)>>,
     posValid |-> TRUE, negValid |-> TRUE,
     posP |-> <<1, 21, 0>>, negP |-> <<1, -21, 0>>]

WithMomenta(pp, np) ==
    [Nominal EXCEPT !.posP = pp, !.negP = np,
                    !.refTracks = <<RefTrack(1, pp), RefTrack(-1, np)>>]

ImpactInvalid == [Nominal EXCEPT !.negImpactValid = FALSE]
CAppFailed == [Nominal EXCEPT !.cAppStatus = FALSE]
FarApart == [Nominal EXCEPT !.distance = -2]
OutsideR == [Nominal EXCEPT !.crossingPoint = <<120, 1, 0>>]
OutsideZ == [Nominal EXCEPT !.crossingPoint = <<0, 0, 301>>]
CrossingInvalid == [Nominal EXCEPT !.posTSCPValid = FALSE]
HeavyPiPi == [Nominal EXCEPT !.posPcx = <<0, 101, 0>>, !.negPcx = <<0, -101, 0>>]
FitInvalid == [Nominal EXCEPT !.vtxValid = FALSE]
NoNdof == [Nominal EXCEPT !.chi2 = 1, !.ndof = 0]
BadVtxChi2 == [Nominal EXCEPT !.chi2 = 15]
LowSigXY == [Nominal EXCEPT !.covariance = Diag(4, 4, 4)]
LowSigXYZ == [Nominal EXCEPT !.position = <<4, 0, 1>>, !.covariance = Diag(1, 1, 100)]
OnePolarity == [Nominal EXCEPT !.refTracks = <<RefTrack(1, <<1, 21, 0>>), RefTrack(1, <<1, -21, 0>>)>>]
OneRefTrack == [Nominal EXCEPT !.refTracks = <<RefTrack(1, <<1, 28, 0>>)>>]
Refitted == [Nominal EXCEPT !.refTracks = <<RefTrack(-1, <<1, -28, 0>>), RefTrack(1, <<1, 28, 0>>)>>]
VertexStateInvalid == [Nominal EXCEPT !.negValid = FALSE]
PointsAwayXY == [Nominal EXCEPT !.position = <<-4, 0, 0>>]
PointsAwayXYZ == [Nominal EXCEPT !.position = <<4, 0, 8>>]
\* degenerate geometry
ZeroLengthXY == [WithMomenta(<<0, 21, 1>>, <<0, -21, 1>>) EXCEPT !.position = <<0, 0, 3>>]
ZeroLengthXYZ == [Nominal EXCEPT !.position = <<0, 0, 0>>]
ZeroMomentum == WithMomenta(<<1, 21, 0>>, <<-1, -21, 0>>)
\* the mass hypotheses
LambdaLike == WithMomenta(<<3, 14, 0>>, <<0, -14, 0>>)
LambdaBarLike == WithMomenta(<<0, 14, 0>>, <<3, -14, 0>>)
LambdaTie == WithMomenta(<<1, 10, 0>>, <<1, -10, 0>>)
D0AndD0Bar == WithMomenta(<<1, 85, 0>>, <<1, -85, 0>>)
D0Only == WithMomenta(<<8, 88, 0>>, <<0, -88, 0>>)
NoMass == WithMomenta(<<1, 28, 0>>, <<1, -28, 0>>)

Scenarios ==
    {Nominal, ImpactInvalid, CAppFailed, FarApart, OutsideR, OutsideZ, CrossingInvalid,
     HeavyPiPi, FitInvalid, NoNdof, BadVtxChi2, LowSigXY, LowSigXYZ, OnePolarity,
     OneRefTrack, Refitted, VertexStateInvalid, PointsAwayXY, PointsAwayXYZ,
     ZeroLengthXY, ZeroLengthXYZ, ZeroMomentum, LambdaLike, LambdaBarLike, LambdaTie,
     D0AndD0Bar, D0Only, NoMass}

\* the answers for a pair: pairs with the helix-2 track are nominal
Answers(services, pos, neg) == services[pos.helix]

----------------------------------------------------------------------------
\* the configuration

NominalParameters ==
    [useVertex |-> FALSE, vertexFitter |-> TRUE, useRefTracks |-> FALSE,
     doKShorts |-> TRUE, doLambdas |-> TRUE, doD0s |-> TRUE,
     tkChi2Cut |-> 5, tkNHitsCut |-> 3, tkPtCut |-> 1,
     tkIPSigXYCut |-> 2, tkIPSigZCut |-> 2,
     vtxChi2Cut |-> 7, vtxDecaySigXYZCut |-> 2, vtxDecaySigXYCut |-> 2,
     tkDCACut |-> 1, mPiPiCut |-> 200, innerHitPosCut |-> 4,
     cosThetaXYCut |-> 9, cosThetaXYZCut |-> 9,
     kShortMassCut |-> 2, lambdaMassCut |-> 2, D0MassCut |-> 3]

\* QWV0Fitter::QWV0Fitter: every option is read once from the parameter set
Constructor(theParameters) ==
    [useVertex |-> theParameters.useVertex,
     vertexFitter |-> theParameters.vertexFitter,
     useRefTracks |-> theParameters.useRefTracks,
     doKShorts |-> theParameters.doKShorts,
     doLambdas |-> theParameters.doLambdas,
     doD0s |-> theParameters.doD0s,
     tkChi2Cut |-> theParameters.tkChi2Cut,
     tkNHitsCut |-> theParameters.tkNHitsCut,
     tkPtCut |-> theParameters.tkPtCut,
     tkIPSigXYCut |-> theParameters.tkIPSigXYCut,
     tkIPSigZCut |-> theParameters.tkIPSigZCut,
     vtxChi2Cut |-> theParameters.vtxChi2Cut,
     vtxDecaySigXYZCut |-> theParameters.vtxDecaySigXYZCut,
     vtxDecaySigXYCut |-> theParameters.vtxDecaySigXYCut,
     tkDCACut |-> theParameters.tkDCACut,
     mPiPiCut |-> theParameters.mPiPiCut,
     innerHitPosCut |-> theParameters.innerHitPosCut,
     cosThetaXYCut |-> theParameters.cosThetaXYCut,
     cosThetaXYZCut |-> theParameters.cosThetaXYZCut,
     kShortMassCut |-> theParameters.kShortMassCut,
     lambdaMassCut |-> theParameters.lambdaMassCut,
     D0MassCut |-> theParameters.D0MassCut]

----------------------------------------------------------------------------
\* fitAll, lines 87-120: the reference position and the track preselection

ReferencePos(s, ev) ==
    IF s.useVertex THEN ev.vertices[1].position ELSE ev.beamSpot.position

ReferenceCov(s, ev) ==
    IF s.useVertex THEN ev.vertices[1].covariance ELSE ev.beamSpot.covariance

\* ipsigXY > tkIPSigXYCut_
IpSigXYPasses(s, t) ==
    IF s.useVertex THEN AbsRatioGT(t.dxyPV, t.dxyError, s.tkIPSigXYCut)
    ELSE AbsRatioGT(t.dxyBS, t.dxyError, s.tkIPSigXYCut)

\* ipsigZ > tkIPSigZCut_
IpSigZPasses(s, t) ==
    IF s.useVertex THEN AbsRatioGT(t.dzPV, t.dzError, s.tkIPSigZCut)
    ELSE AbsRatioGT(t.dzBS, t.dzError, s.tkIPSigZCut)

PassesPreselectionLoose(s, t) ==
    /\ t.normalizedChi2 < s.tkChi2Cut
    /\ t.numberOfValidHits >= s.tkNHitsCut
    /\ t.pt >= s.tkPtCut
    /\ IpSigXYPasses(s, t)
    /\ IpSigZPasses(s, t)

PassesPreselection(s, t) ==
    /\ t.normalizedChi2 < s.tkChi2Cut
    /\ t.numberOfValidHits >= s.tkNHitsCut
    /\ t.pt > s.tkPtCut
    /\ IpSigXYPasses(s, t)
    /\ IpSigZPasses(s, t)

\* the keys of the tracks pushed to theTrackRefs, in the order of the loop
SelectedKeys(s, tracks) ==
    SelectSeq([k \in 1..Len(tracks) |-> k], LAMBDA k : PassesPreselection(s, tracks[k]))

----------------------------------------------------------------------------
\* fitAll, lines 124-145: the pair loop and the charge roles

InnerStartFromFirst(i) == 1

\* the first value of trdx2 for a value of trdx1
InnerStart(i) == i + 1

\* the pair the loops reach from trdx1 = i with trdx2 about to be j; n = theTrackRefs.size().
\* <<n + 1, n + 1>> when the outer loop ends.
RECURSIVE LoopFrom(_, _, _)
LoopFrom(i, j, n) ==
    IF i > n THEN <<n + 1, n + 1>>
    ELSE IF j <= n THEN <<i, j>>
    ELSE LoopFrom(i + 1, InnerStart(i + 1), n)

AnyNonZeroCharges(c1, c2) ==
    IF c1 < 0 /\ c2 # 0 THEN "negpos"
    ELSE IF c1 > 0 /\ c2 # 0 THEN "posneg"
    ELSE "skip"

\* which of the two tracks is the negative and which the positive one
ChargeRoles(c1, c2) ==
    IF c1 < 0 /\ c2 > 0 THEN "negpos"
    ELSE IF c1 > 0 /\ c2 < 0 THEN "posneg"
    ELSE "skip"

----------------------------------------------------------------------------
\* fitAll, lines 147-193: the proximity screening of a pair

OutsideFiducial(cxPt) ==
    \/ cxPt[1] * cxPt[1] + cxPt[2] * cxPt[2] > FiducialR * FiducialR
    \/ Abs(cxPt[3]) > FiducialZ

\* mass > mPiPiCut_, with mass = sqrt(totalESq - totalPSq); sqrt of a negative is NaN
MPiPiAbove(posP, negP, cut) ==
    LET totalE == Energy(posP, piMassSquared) + Energy(negP, piMassSquared)
        m2 == totalE * totalE - Mag2(VAdd(posP, negP))
    IN  m2 >= 0 /\ (cut < 0 \/ m2 > cut * cut)

ScreeningWithoutDCA(s, a) ==
    IF ~a.posImpactValid \/ ~a.negImpactValid THEN "impactPoint"
    ELSE IF ~a.cAppStatus THEN "closestApproach"
    ELSE IF OutsideFiducial(a.crossingPoint) THEN "fiducial"
    ELSE IF ~a.posTSCPValid \/ ~a.negTSCPValid THEN "crossingState"
    ELSE IF MPiPiAbove(a.posPcx, a.negPcx, s.mPiPiCut) THEN "mPiPi"
    ELSE "pass"

\* the check at which the pair is abandoned, "pass" when it goes on to the fit
Screening(s, a) ==
    IF ~a.posImpactValid \/ ~a.negImpactValid THEN "impactPoint"
    ELSE IF ~a.cAppStatus THEN "closestApproach"
    ELSE IF Abs(a.distance) > s.tkDCACut THEN "dca"
    ELSE IF OutsideFiducial(a.crossingPoint) THEN "fiducial"
    ELSE IF ~a.posTSCPValid \/ ~a.negTSCPValid THEN "crossingState"
    ELSE IF MPiPiAbove(a.posPcx, a.negPcx, s.mPiPiCut) THEN "mPiPi"
    ELSE "pass"

----------------------------------------------------------------------------
\* fitAll, lines 195-214: the vertex fit

\* KalmanVertexFitter(useRefittedTracks).vertex(transTracks)
KalmanVertexFitter(useRefittedTracks, a) ==
    [valid |-> a.vtxValid, chi2 |-> a.chi2, ndof |-> a.ndof,
     position |-> a.position, covariance |-> a.covariance,
     refittedTracks |-> IF useRefittedTracks THEN a.refTracks ELSE <<>>]

\* AdaptiveVertexFitter().vertex(transTracks); its smoother decides the refitted tracks
AdaptiveVertexFitter(a) ==
    [valid |-> a.vtxValid, chi2 |-> a.chi2, ndof |-> a.ndof,
     position |-> a.position, covariance |-> a.covariance,
     refittedTracks |-> a.refTracks]

FitterChoice(s, a) ==
    IF s.vertexFitter THEN KalmanVertexFitter(s.useRefTracks, a)
    ELSE AdaptiveVertexFitter(a)

AfterFitterChoiceToggling(s) ==
    IF s.vertexFitter THEN s ELSE [s EXCEPT !.useRefTracks = ~s.useRefTracks]

\* the object after lines 203-210: the adaptive branch assigns useRefTracks_
AfterFitterChoice(s) ==
    IF s.vertexFitter THEN s ELSE [s EXCEPT !.useRefTracks = FALSE]

----------------------------------------------------------------------------
\* fitAll, lines 216-307: the vertex validation

VertexChi2RejectsAtCut(vtx, cut) ==
    IF vtx.ndof # 0 THEN vtx.chi2 >= cut * vtx.ndof
    ELSE vtx.chi2 * 1000000 >= cut

\* theVtx.normalizedChi2() > vtxChi2Cut_, where normalizedChi2 is chi2 / ndof,
\* and chi2 * 1e6 for ndof = 0 (ndof is never negative)
VertexChi2Rejects(vtx, cut) ==
    IF vtx.ndof # 0 THEN vtx.chi2 > cut * vtx.ndof
    ELSE vtx.chi2 * 1000000 > cut

\* distMag / sigmaDistMag < cut with sigmaDistMag = sqrt(Similarity(totalCov, distVec)) / distMag:
\* distMag = 0 gives 0/0 = NaN and the comparison is false; a similarity of 0 gives
\* +inf, a negative one NaN; otherwise distMag^2 / sqrt(similarity) < cut.
DecaySigBelow(totalCov, distVec, cut) ==
    LET d2 == Mag2(distVec)
        sim == Similarity(totalCov, distVec)
    IN  IF d2 = 0 \/ sim <= 0 \/ cut <= 0 THEN FALSE
        ELSE d2 * d2 < cut * cut * sim

\* dot / (sqrt(d2) * sqrt(p2)) < cut / 10: a zero d2 or p2 gives 0/0 = NaN
\* and the comparison is false
AngleBelow(dot, d2, p2, cut) ==
    IF d2 = 0 \/ p2 = 0 THEN FALSE
    ELSE IF cut >= 0 THEN dot < 0 \/ 100 * dot * dot < cut * cut * d2 * p2
    ELSE dot < 0 /\ 100 * dot * dot > cut * cut * d2 * p2

\* lines 258-281: the states at the vertex, of the refitted or of the original tracks.
\* found is FALSE when a polarity is missing among the refitted tracks.
VertexStates(s, vtx, a) ==
    IF s.useRefTracks /\ Len(vtx.refittedTracks) > 1
    THEN LET ref == vtx.refittedTracks
             posI == {i \in 1..Len(ref) : ref[i].charge > 0}
             negI == {i \in 1..Len(ref) : ref[i].charge < 0}
             last(I) == CHOOSE i \in I : \A k \in I : k <= i
         IN  IF posI = {} \/ negI = {} THEN [found |-> FALSE]
             ELSE [found |-> TRUE,
                   plus |-> [valid |-> ref[last(posI)].valid, p |-> ref[last(posI)].p],
                   mins |-> [valid |-> ref[last(negI)].valid, p |-> ref[last(negI)].p]]
    ELSE [found |-> TRUE,
          plus |-> [valid |-> a.posValid, p |-> a.posP],
          mins |-> [valid |-> a.negValid, p |-> a.negP]]

\* the check at which the pair is abandoned, "pass" when it reaches the builder
Validation(s, ev, vtx, a) ==
    LET referencePos == ReferencePos(s, ev)
        totalCov == MatAdd(ReferenceCov(s, ev), vtx.covariance)
        distVecXYZ == VSub(vtx.position, referencePos)
        distVecXY == <<distVecXYZ[1], distVecXYZ[2], 0>>
        traj == VertexStates(s, vtx, a)
    IN  IF VertexChi2Rejects(vtx, s.vtxChi2Cut) THEN "vtxChi2"
        ELSE IF DecaySigBelow(totalCov, distVecXY, s.vtxDecaySigXYCut) THEN "decaySigXY"
        ELSE IF DecaySigBelow(totalCov, distVecXYZ, s.vtxDecaySigXYZCut) THEN "decaySigXYZ"
        ELSE IF ~traj.found THEN "refPolarity"
        ELSE IF ~traj.plus.valid \/ ~traj.mins.valid THEN "vertexState"
        ELSE LET totalP == VAdd(traj.plus.p, traj.mins.p)
                 totalPXY == <<totalP[1], totalP[2], 0>>
             IN  IF AngleBelow(Dot(distVecXY, totalPXY), Mag2(distVecXY), Mag2(totalPXY),
                               s.cosThetaXYCut) THEN "angleXY"
                 ELSE IF AngleBelow(Dot(distVecXYZ, totalP), Mag2(distVecXYZ), Mag2(totalP),
                                    s.cosThetaXYZCut) THEN "angleXYZ"
                 ELSE "pass"

----------------------------------------------------------------------------
\* fitAll, lines 309-427: the mass-hypothesis builder

\* reco::RecoChargedCandidate(q, p4, vtx) with setTrack(ref)
Daughter(q, mom, e, vtx, ref) ==
    [charge |-> q, p4 |-> P4(mom, e), vertex |-> vtx, track |-> ref]

\* reco::VertexCompositeCandidate(0, p4, vtx, vtxCov, vtxChi2, vtxNdof)
VertexCompositeCandidate(p4, vtx) ==
    [pdgId |-> 0, charge |-> 0, p4 |-> p4, vertex |-> vtx.position,
     vertexCovariance |-> vtx.covariance, vertexChi2 |-> vtx.chi2,
     vertexNdof |-> vtx.ndof, daughters |-> <<>>]

\* AddFourMomenta::set: the candidate's charge and p4 become the sums over its daughters
AddFourMomenta(c) ==
    [c EXCEPT !.charge = c.daughters[1].charge + c.daughters[2].charge,
              !.p4 = P4Add(c.daughters[1].p4, c.daughters[2].p4)]

\* addDaughter twice, setPdgId, addp4.set
Assemble(c, d1, d2, id) ==
    AddFourMomenta([c EXCEPT !.daughters = <<d1, d2>>, !.pdgId = id])

\* mass() < nominal + cut && mass() > nominal - cut
InMassWindow(c, nominal, cut) ==
    /\ MassLT(M2(c.p4), nominal + cut)
    /\ MassGT(M2(c.p4), nominal - cut)

LambdaIsBuiltOnTie(positiveP, negativeP) == Mag2(positiveP) >= Mag2(negativeP)

\* line 345: the Lambda is built, else the LambdaBar
LambdaIsBuilt(positiveP, negativeP) == Mag2(positiveP) > Mag2(negativeP)

D0DaughtersOfD0Bar(piPlus, piMinus, kaonPlus, kaonMinus) == <<kaonPlus, piMinus>>

\* lines 411-412: the daughters of the D0
D0Daughters(piPlus, piMinus, kaonPlus, kaonMinus) == <<piPlus, kaonMinus>>

D0BarFirst(d0, d0Bar) == <<d0Bar, d0>>

\* lines 410-427: the D0 is examined and pushed before the D0Bar
D0Order(d0, d0Bar) == <<d0, d0Bar>>

\* what one pair builds and pushes: the candidates for each collection, in push order,
\* and the pdg ids of the hypotheses it built
Builder(s, vtx, positiveP, negativeP, positiveTrackRef, negativeTrackRef) ==
    LET totalP == VAdd(positiveP, negativeP)
        piPlusE == Energy(positiveP, piMassSquared)
        piMinusE == Energy(negativeP, piMassSquared)
        kaonPlusE == Energy(positiveP, kaonMassSquared)
        kaonMinusE == Energy(negativeP, kaonMassSquared)
        protonE == Energy(positiveP, protonMassSquared)
        antiProtonE == Energy(negativeP, protonMassSquared)
        kShortP4 == P4(totalP, piPlusE + piMinusE)
        lambdaP4 == P4(totalP, protonE + piMinusE)
        lambdaBarP4 == P4(totalP, antiProtonE + piPlusE)
        D0P4 == P4(totalP, kaonMinusE + piPlusE)
        D0BarP4 == P4(totalP, kaonPlusE + piMinusE)
        vtxPos == vtx.position
        thePiPlusCand == Daughter(1, positiveP, piPlusE, vtxPos, positiveTrackRef)
        thePiMinusCand == Daughter(-1, negativeP, piMinusE, vtxPos, negativeTrackRef)
        theProtonCand == Daughter(1, positiveP, protonE, vtxPos, positiveTrackRef)
        theAntiProtonCand == Daughter(-1, negativeP, antiProtonE, vtxPos, negativeTrackRef)
        theKaonPlusCand == Daughter(1, positiveP, kaonPlusE, vtxPos, positiveTrackRef)
        theKaonMinusCand == Daughter(-1, negativeP, kaonMinusE, vtxPos, negativeTrackRef)
        isLambda == LambdaIsBuilt(positiveP, negativeP)
        theKshort == Assemble(VertexCompositeCandidate(kShortP4, vtx),
                              thePiPlusCand, thePiMinusCand, 310)
        theLambda == Assemble(VertexCompositeCandidate(lambdaP4, vtx),
                              theProtonCand, thePiMinusCand, 3122)
        theLambdaBar == Assemble(VertexCompositeCandidate(lambdaBarP4, vtx),
                                 theAntiProtonCand, thePiPlusCand, -3122)
        theD0Daughters == D0Daughters(thePiPlusCand, thePiMinusCand,
                                      theKaonPlusCand, theKaonMinusCand)
        theD0 == Assemble(VertexCompositeCandidate(D0P4, vtx),
                          theD0Daughters[1], theD0Daughters[2], 421)
        theD0Bar == Assemble(VertexCompositeCandidate(D0BarP4, vtx),
                             theKaonPlusCand, thePiMinusCand, -421)
        kept(c, nominal, cut) == IF InMassWindow(c, nominal, cut) THEN <<c>> ELSE <<>>
        d0s == D0Order(theD0, theD0Bar)
    IN  [kshorts |-> IF s.doKShorts THEN kept(theKshort, kShortMass, s.kShortMassCut)
                     ELSE <<>>,
         lambdas |-> IF s.doLambdas
                     THEN IF isLambda THEN kept(theLambda, lambdaMass, s.lambdaMassCut)
                          ELSE kept(theLambdaBar, lambdaMass, s.lambdaMassCut)
                     ELSE <<>>,
         d0s |-> IF s.doD0s
                 THEN kept(d0s[1], D0Mass, s.D0MassCut) \o kept(d0s[2], D0Mass, s.D0MassCut)
                 ELSE <<>>,
         built |-> (IF s.doKShorts THEN {310} ELSE {})
                   \cup (IF s.doLambdas THEN (IF isLambda THEN {3122} ELSE {-3122}) ELSE {})
                   \cup (IF s.doD0s THEN {421, -421} ELSE {})]

----------------------------------------------------------------------------
\* the inputs: a parameter set, the tracks of the event, the services' answers for
\* the pairs of helix 1, and how many times fitAll is called on the event

\* every kind of track, under the nominal cuts and both references
TrackInputs ==
    {[parameters |-> [NominalParameters EXCEPT !.useVertex = uv],
      tracks |-> t, answers |-> Nominal, calls |-> 1] :
        uv \in BOOLEAN, t \in SeqsUpTo(AllKinds, MaxTracks)}

\* every answer of the services, under both fitters with and without refitted tracks
PairInputs ==
    {[parameters |-> [NominalParameters EXCEPT !.vertexFitter = vf, !.useRefTracks = ur],
      tracks |-> t, answers |-> a, calls |-> 1] :
        vf \in BOOLEAN, ur \in BOOLEAN, t \in SeqsUpTo(GoodKinds, MaxTracks),
        a \in Scenarios}

\* every setting of the options, fitAll called twice
OptionInputs ==
    {[parameters |-> [NominalParameters EXCEPT !.useVertex = f[1], !.vertexFitter = f[2],
                                                !.useRefTracks = f[3], !.doKShorts = f[4],
                                                !.doLambdas = f[5], !.doD0s = f[6]],
      tracks |-> t, answers |-> a, calls |-> 2] :
        f \in [1..6 -> BOOLEAN],
        t \in {<<PosTrack, NegTrack>>, <<PosTrack2, NegTrack, PosTrack>>},
        a \in {Refitted, OnePolarity, D0AndD0Bar}}

Inputs == TrackInputs \cup PairInputs \cup OptionInputs

----------------------------------------------------------------------------
VARIABLES
    self,              \* the QWV0Fitter object: its option and cut members
    constructed,       \* the object as the constructor left it
    event,             \* the event: tracks, beam spot, primary vertices
    services,          \* the external services' answers, by helix of the positive track
    pc,                \* where fitAll is: "call", "pairs", "fit", "validate", "returned"
    theTrackRefs,      \* keys of the preselected tracks
    theTransTracks,    \* their TransientTracks (by key), parallel to theTrackRefs
    trdx1, trdx2,      \* the loop indices
    positiveTrackRef, negativeTrackRef,   \* the roles of the pair in hand
    theRecoVertex,     \* the fitted vertex of the pair in hand
    theKshorts, theLambdas, theD0s,       \* the output collections
    callsLeft,         \* calls of fitAll still to come on this event
    firstOutput,       \* the output collections and the log of the first call, once a
                       \* second began
    log,               \* this call's finished pairs: indices, last stage, hypotheses built
    fitCalls           \* this call's fitter invocations: the keys <<positive, negative>>

vars == <<self, constructed, event, services, pc, theTrackRefs, theTransTracks,
          trdx1, trdx2, positiveTrackRef, negativeTrackRef, theRecoVertex,
          theKshorts, theLambdas, theD0s, callsLeft, firstOutput, log, fitCalls>>

NoVertex == [valid |-> FALSE, chi2 |-> 0, ndof |-> 0, position |-> <<0, 0, 0>>,
             covariance |-> Diag(0, 0, 0), refittedTracks |-> <<>>]

NoOutput == [given |-> FALSE, kshorts |-> <<>>, lambdas |-> <<>>, d0s |-> <<>>,
             log |-> <<>>]

Init ==
    \E in \in Inputs :
        /\ self = Constructor(in.parameters)
        /\ constructed = Constructor(in.parameters)
        /\ event = [tracks |-> in.tracks, beamSpot |-> BeamSpot,
                    vertices |-> <<PrimaryVertex>>]
        /\ services = [h \in {1, 2} |-> IF h = 1 THEN in.answers ELSE Nominal]
        /\ callsLeft = in.calls - 1
        /\ pc = "call"
        /\ theTrackRefs = <<>> /\ theTransTracks = <<>>
        /\ trdx1 = 0 /\ trdx2 = 0
        /\ positiveTrackRef = 0 /\ negativeTrackRef = 0
        /\ theRecoVertex = NoVertex
        /\ theKshorts = <<>> /\ theLambdas = <<>> /\ theD0s = <<>>
        /\ firstOutput = NoOutput
        /\ log = <<>> /\ fitCalls = <<>>

----------------------------------------------------------------------------
\* fitAll

PairAnswers == Answers(services, event.tracks[positiveTrackRef], event.tracks[negativeTrackRef])

\* a return written where the code has a continue: the call ends at the pair in hand
ReturnInstead ==
    /\ trdx1' = trdx1
    /\ trdx2' = trdx2
    /\ pc' = "returned"

\* the end of one iteration of the inner loop (a continue, or the end of its body)
Continue ==
    LET next == LoopFrom(trdx1, trdx2 + 1, Len(theTrackRefs))
    IN  /\ trdx1' = next[1]
        /\ trdx2' = next[2]
        /\ pc' = IF next[1] > Len(theTrackRefs) THEN "returned" ELSE "pairs"

\* the record of an abandoned pair, and of one that reached the builder
Logged(pos, neg, stage, vtx) ==
    log' = Append(log, [pair |-> <<trdx1, trdx2>>, pos |-> pos, neg |-> neg,
                        stage |-> stage, vertex |-> vtx, refitted |-> FALSE,
                        positiveP |-> <<0, 0, 0>>, negativeP |-> <<0, 0, 0>>,
                        built |-> {}, pushed |-> <<0, 0, 0>>])

LoggedBuilt(vtx, refitted, positiveP, negativeP, b) ==
    log' = Append(log, [pair |-> <<trdx1, trdx2>>, pos |-> positiveTrackRef,
                        neg |-> negativeTrackRef, stage |-> "built", vertex |-> vtx,
                        refitted |-> refitted,
                        positiveP |-> positiveP, negativeP |-> negativeP,
                        built |-> b.built,
                        pushed |-> <<Len(b.kshorts), Len(b.lambdas), Len(b.d0s)>>])

\* lines 82-125: the early return on an empty collection, else the preselection
\* loop and the entry of the pair loops
FitAllBegin ==
    /\ pc = "call"
    /\ IF Len(event.tracks) = 0
       THEN /\ pc' = "returned"
            /\ UNCHANGED <<theTrackRefs, theTransTracks, trdx1, trdx2>>
       ELSE LET keys == SelectedKeys(self, event.tracks)
                first == LoopFrom(1, InnerStart(1), Len(keys))
            IN  /\ theTrackRefs' = keys
                /\ theTransTracks' = keys
                /\ trdx1' = first[1]
                /\ trdx2' = first[2]
                /\ pc' = IF first[1] > Len(keys) THEN "returned" ELSE "pairs"
    /\ UNCHANGED <<self, constructed, event, services, positiveTrackRef, negativeTrackRef,
                   theRecoVertex, theKshorts, theLambdas, theD0s, callsLeft, firstOutput,
                   log, fitCalls>>

\* lines 127-193: the charge roles of the pair at <<trdx1, trdx2>> and its
\* proximity screening
PairScreen ==
    /\ pc = "pairs"
    /\ LET roles == ChargeRoles(event.tracks[theTrackRefs[trdx1]].charge,
                                event.tracks[theTrackRefs[trdx2]].charge)
           neg == IF roles = "negpos" THEN trdx1 ELSE trdx2
           pos == IF roles = "negpos" THEN trdx2 ELSE trdx1
           a == Answers(services, event.tracks[theTransTracks[pos]],
                        event.tracks[theTransTracks[neg]])
       IN  IF roles = "skip"
           THEN /\ positiveTrackRef' = 0
                /\ negativeTrackRef' = 0
                /\ Logged(0, 0, "charge", NoVertex)
                /\ Continue
           ELSE /\ positiveTrackRef' = theTrackRefs[pos]
                /\ negativeTrackRef' = theTrackRefs[neg]
                /\ IF Screening(self, a) = "pass"
                   THEN /\ pc' = "fit"
                        /\ UNCHANGED <<trdx1, trdx2, log>>
                   ELSE /\ Logged(theTrackRefs[pos], theTrackRefs[neg],
                                  Screening(self, a), NoVertex)
                        /\ Continue
    /\ UNCHANGED <<self, constructed, event, services, theTrackRefs, theTransTracks,
                   theRecoVertex, theKshorts, theLambdas, theD0s, callsLeft, firstOutput,
                   fitCalls>>

\* lines 195-214: the fitter of the configured strategy is built and invoked
FitVertex ==
    /\ pc = "fit"
    /\ theRecoVertex' = FitterChoice(self, PairAnswers)
    /\ self' = AfterFitterChoice(self)
    /\ fitCalls' = Append(fitCalls, <<positiveTrackRef, negativeTrackRef>>)
    /\ IF theRecoVertex'.valid
       THEN /\ pc' = "validate"
            /\ UNCHANGED <<trdx1, trdx2, log>>
       ELSE /\ Logged(positiveTrackRef, negativeTrackRef, "fitInvalid", theRecoVertex')
            /\ Continue
    /\ UNCHANGED <<constructed, event, services, theTrackRefs, theTransTracks,
                   positiveTrackRef, negativeTrackRef, theKshorts, theLambdas, theD0s,
                   callsLeft, firstOutput>>

\* lines 216-434: the vertex validation and the mass-hypothesis builder
ValidateAndBuild ==
    /\ pc = "validate"
    /\ LET stage == Validation(self, event, theRecoVertex, PairAnswers)
           traj == VertexStates(self, theRecoVertex, PairAnswers)
           b == Builder(self, theRecoVertex, traj.plus.p, traj.mins.p,
                        positiveTrackRef, negativeTrackRef)
       IN  IF stage = "pass"
           THEN /\ theKshorts' = theKshorts \o b.kshorts
                /\ theLambdas' = theLambdas \o b.lambdas
                /\ theD0s' = theD0s \o b.d0s
                /\ LoggedBuilt(theRecoVertex,
                               self.useRefTracks /\ Len(theRecoVertex.refittedTracks) > 1,
                               traj.plus.p, traj.mins.p, b)
           ELSE /\ UNCHANGED <<theKshorts, theLambdas, theD0s>>
                /\ Logged(positiveTrackRef, negativeTrackRef, stage, theRecoVertex)
    /\ Continue
    /\ UNCHANGED <<self, constructed, event, services, theTrackRefs, theTransTracks,
                   positiveTrackRef, negativeTrackRef, theRecoVertex, callsLeft,
                   firstOutput, fitCalls>>

\* the caller: the same event is handed to the same object again, with empty collections
CallAgain ==
    /\ pc = "returned"
    /\ callsLeft > 0
    /\ callsLeft' = callsLeft - 1
    /\ firstOutput' = IF firstOutput.given THEN firstOutput
                      ELSE [given |-> TRUE, kshorts |-> theKshorts,
                            lambdas |-> theLambdas, d0s |-> theD0s, log |-> log]
    /\ theKshorts' = <<>> /\ theLambdas' = <<>> /\ theD0s' = <<>>
    /\ theTrackRefs' = <<>> /\ theTransTracks' = <<>>
    /\ trdx1' = 0 /\ trdx2' = 0
    /\ positiveTrackRef' = 0 /\ negativeTrackRef' = 0
    /\ theRecoVertex' = NoVertex
    /\ log' = <<>> /\ fitCalls' = <<>>
    /\ pc' = "call"
    /\ UNCHANGED <<self, constructed, event, services>>

Next == FitAllBegin \/ PairScreen \/ FitVertex \/ ValidateAndBuild \/ CallAgain

Spec == Init /\ [][Next]_vars

\* fitAll is sequential code without blocking calls: while a call has not returned,
\* its next step is taken. Every step of FitAllStep changes the control position
\* <<pc, trdx1, trdx2>>, and one is enabled exactly when pc # "returned", so the
\* weak fairness of FitAllStep is stated on the control position alone. Whether the
\* caller hands the event over again is left open.
FitAllStep == FitAllBegin \/ PairScreen \/ FitVertex \/ ValidateAndBuild

FitAllAdvances ==
    /\ pc # "returned"
    /\ pc' \in {"pairs", "fit", "validate", "returned"}
    /\ trdx1' \in 0..(MaxTracks + 1)
    /\ trdx2' \in 0..(MaxTracks + 1)

FairSpec == Spec /\ WF_<<pc, trdx1, trdx2>>(FitAllAdvances)

----------------------------------------------------------------------------
\* notions the properties share

Range(q) == {q[i] : i \in 1..Len(q)}

Candidates == Range(theKshorts) \cup Range(theLambdas) \cup Range(theD0s)

ChargeOf(key) == event.tracks[key].charge

OppositeSigns(c1, c2) == (c1 > 0 /\ c2 < 0) \/ (c1 < 0 /\ c2 > 0)

\* the pair of loop indices in hand while its fit or validation is pending
InHand == pc \in {"fit", "validate"}

----------------------------------------------------------------------------
\* C1: a pair of preselected tracks that does not have strictly opposite charge signs
\* (both positive, both negative, or one of charge zero) is abandoned at the charge
\* test: it is never screened further, never fitted and pushes nothing; every candidate
\* of the three collections has two daughters, one built from a positive-charge track
\* and one from a negative-charge track.
C1_SameChargeNeverCandidate ==
    /\ \A e \in Range(log) :
          ~OppositeSigns(ChargeOf(theTrackRefs[e.pair[1]]), ChargeOf(theTrackRefs[e.pair[2]]))
              => e.stage = "charge" /\ e.pushed = <<0, 0, 0>>
    /\ InHand => OppositeSigns(ChargeOf(theTrackRefs[trdx1]), ChargeOf(theTrackRefs[trdx2]))
    /\ \A f \in Range(fitCalls) : ChargeOf(f[1]) > 0 /\ ChargeOf(f[2]) < 0
    /\ \A c \in Candidates :
          /\ Len(c.daughters) = 2
          /\ \E i, j \in 1..2 : /\ ChargeOf(c.daughters[i].track) > 0
                                /\ ChargeOf(c.daughters[j].track) < 0

\* C1 witness: a call that skipped a pair of two positive tracks and pushed a
\* candidate for an opposite-sign pair
C1_Witness ==
    /\ pc = "returned"
    /\ \E e \in Range(log) : /\ e.stage = "charge"
                             /\ ChargeOf(theTrackRefs[e.pair[1]]) > 0
                             /\ ChargeOf(theTrackRefs[e.pair[2]]) > 0
    /\ Len(theKshorts) > 0

----------------------------------------------------------------------------
\* a track fails one of the five preselection conditions of the object's cuts
FailsPreselection(t) ==
    \/ ~(t.normalizedChi2 < self.tkChi2Cut)
    \/ ~(t.numberOfValidHits >= self.tkNHitsCut)
    \/ ~(t.pt > self.tkPtCut)
    \/ ~IpSigXYPasses(self, t)
    \/ ~IpSigZPasses(self, t)

\* C2: a track that fails one of the five preselection conditions is in neither
\* preselected sequence, in no pair, in no fitter invocation and behind no daughter of
\* a candidate; the preselected sequences are parallel and keep the input order.
C2_MonotonicFiltering ==
    /\ theTransTracks = theTrackRefs
    /\ \A i \in 1..Len(theTrackRefs) :
          /\ theTrackRefs[i] \in 1..Len(event.tracks)
          /\ ~FailsPreselection(event.tracks[theTrackRefs[i]])
          /\ \A j \in 1..Len(theTrackRefs) : i < j => theTrackRefs[i] < theTrackRefs[j]
    /\ InHand => /\ ~FailsPreselection(event.tracks[positiveTrackRef])
                 /\ ~FailsPreselection(event.tracks[negativeTrackRef])
    /\ \A e \in Range(log) :
          e.stage # "charge" => /\ ~FailsPreselection(event.tracks[e.pos])
                                /\ ~FailsPreselection(event.tracks[e.neg])
    /\ \A f \in Range(fitCalls) : /\ ~FailsPreselection(event.tracks[f[1]])
                                  /\ ~FailsPreselection(event.tracks[f[2]])
    /\ \A c \in Candidates : \A i \in 1..Len(c.daughters) :
          ~FailsPreselection(event.tracks[c.daughters[i].track])

\* C2 witness: an event with a failing track between two retained ones, whose call
\* pushed a candidate
C2_Witness ==
    /\ pc = "returned"
    /\ Len(event.tracks) = 3
    /\ FailsPreselection(event.tracks[2])
    /\ theTrackRefs = <<1, 3>>
    /\ Len(theKshorts) > 0

----------------------------------------------------------------------------
\* C3: the object's options and cuts are, at every point of every call, as the
\* constructor left them.
C3_ConfigurationNeverMutated == self = constructed

----------------------------------------------------------------------------
\* C4: a second call of fitAll on the same object and event, from empty collections,
\* pushes the same candidates in the same order as the first, and every pair of it
\* ends at the same stage with the same (original or refitted) momentum states.
C4_SecondCallSameOutput ==
    (pc = "returned" /\ firstOutput.given) =>
        /\ theKshorts = firstOutput.kshorts
        /\ theLambdas = firstOutput.lambdas
        /\ theD0s = firstOutput.d0s
        /\ log = firstOutput.log

\* C4 witness: a second call has returned on an object built with the adaptive fitter
\* and useRefTracks, whose fits return refitted tracks, with a candidate pushed
C4_Witness ==
    /\ pc = "returned"
    /\ firstOutput.given
    /\ ~constructed.vertexFitter
    /\ constructed.useRefTracks
    /\ services[1] = Refitted
    /\ Len(firstOutput.kshorts) > 0
    /\ Len(theKshorts) > 0

----------------------------------------------------------------------------
\* the finished pairs whose fit returned a valid vertex
Validated == {e \in Range(log) : e.vertex.valid}

\* chi-square/ndof of a vertex equals the cut exactly
AtVertexChi2Cut(vtx) == vtx.ndof # 0 /\ vtx.chi2 = self.vtxChi2Cut * vtx.ndof

\* C5 as stated: a pair whose fitted vertex has chi-square/ndof equal to vtxChi2Cut
\* is rejected and pushes no candidate to any collection.
C5_AtCutRejected ==
    \A e \in Validated : AtVertexChi2Cut(e.vertex) => e.pushed = <<0, 0, 0>>

\* C5 amended: the fit-quality cut abandons a pair iff its vertex chi-square/ndof is
\* strictly greater than vtxChi2Cut; a pair exactly at the cut passes this cut and goes
\* on to the later checks.
C5_OnlyAboveCutRejected ==
    \A e \in Validated :
        /\ e.vertex.ndof > 0 =>
              (e.stage = "vtxChi2" <=> e.vertex.chi2 > self.vtxChi2Cut * e.vertex.ndof)
        /\ AtVertexChi2Cut(e.vertex) => e.stage # "vtxChi2"

\* C5 witness: a pair exactly at the cut reached the builder and pushed a K-short
C5_Witness ==
    \E e \in Validated : /\ AtVertexChi2Cut(e.vertex)
                         /\ e.stage = "built"
                         /\ e.pushed[1] = 1
                         /\ Len(theKshorts) > 0

----------------------------------------------------------------------------
\* the services' answers for the pair of the tracks with these keys
AnswersFor(pos, neg) == Answers(services, event.tracks[pos], event.tracks[neg])

\* the six proximity checks, as the claim lists them
PassesProximity(a) ==
    /\ a.posImpactValid /\ a.negImpactValid
    /\ a.cAppStatus
    /\ Abs(a.distance) <= self.tkDCACut
    /\ a.crossingPoint[1] * a.crossingPoint[1] + a.crossingPoint[2] * a.crossingPoint[2]
          <= FiducialR * FiducialR
    /\ Abs(a.crossingPoint[3]) <= FiducialZ
    /\ a.posTSCPValid /\ a.negTSCPValid
    /\ ~MPiPiAbove(a.posPcx, a.negPcx, self.mPiPiCut)

ProximityStages == {"impactPoint", "closestApproach", "dca", "fiducial", "crossingState",
                    "mPiPi"}

\* C6: the fitter is invoked for a pair only after the pair passed every proximity
\* check; a pair abandoned at the charge test or at a proximity check, in particular
\* one whose closest-approach distance exceeds tkDCACut, causes no fitter invocation.
C6_FitOnlyAfterScreening ==
    /\ \A f \in Range(fitCalls) : PassesProximity(AnswersFor(f[1], f[2]))
    /\ InHand => PassesProximity(AnswersFor(positiveTrackRef, negativeTrackRef))
    /\ \A e \in Range(log) :
          e.stage \in ProximityStages =>
              /\ <<e.pos, e.neg>> \notin Range(fitCalls)
              /\ ~e.vertex.valid
              /\ ~PassesProximity(AnswersFor(e.pos, e.neg))
    /\ \A e \in Range(log) :
          (e.stage # "charge" /\ Abs(AnswersFor(e.pos, e.neg).distance) > self.tkDCACut)
              => <<e.pos, e.neg>> \notin Range(fitCalls)
    /\ \A e \in Range(log) :
          e.stage \notin ProximityStages \cup {"charge"} => <<e.pos, e.neg>> \in Range(fitCalls)

\* C6 witness: a call abandoned one pair at the distance cut without a fit and
\* fitted a later pair
C6_Witness ==
    /\ pc = "returned"
    /\ \E e \in Range(log) : e.stage = "dca"
    /\ Len(fitCalls) = 1
    /\ Len(theKshorts) = 1

----------------------------------------------------------------------------
\* the displacement of a candidate's vertex from the reference position
Displacement(c) == VSub(c.vertex, ReferencePos(self, event))

\* C7: no candidate is pushed for a pair whose vertex displacement from the reference
\* position has zero length (in the transverse plane or in space) or whose daughters'
\* total momentum has zero length (transverse or full).
C7_DegenerateRejected ==
    \A c \in Candidates :
        /\ ~(Displacement(c)[1] = 0 /\ Displacement(c)[2] = 0)
        /\ ~(c.p4[1] = 0 /\ c.p4[2] = 0)

----------------------------------------------------------------------------
\* the daughter of a candidate with this charge
DaughterOf(c, q) == c.daughters[CHOOSE i \in 1..Len(c.daughters) : c.daughters[i].charge = q]

Momentum(d) == <<d.p4[1], d.p4[2], d.p4[3]>>

\* the daughter's energy is that of its momentum under this rest mass
HasMass(d, massSquared) == d.p4[4] = ISqrt(Mag2(Momentum(d)) + massSquared)

\* C8: with doLambdas, a pair that reaches the builder builds exactly one of the
\* Lambda (3122) and the anti-Lambda (-3122) and pushes at most one candidate to
\* theLambdas: the Lambda iff the positive daughter's momentum is strictly larger in
\* magnitude than the negative daughter's, else (equal magnitudes too) the anti-Lambda;
\* the proton is the positive daughter of a Lambda, the antiproton the negative
\* daughter of an anti-Lambda.
C8_LambdaOrAntiLambda ==
    /\ \A e \in Range(log) :
          (e.stage = "built" /\ self.doLambdas) =>
              /\ e.built \cap {3122, -3122} =
                    (IF Mag2(e.positiveP) > Mag2(e.negativeP) THEN {3122} ELSE {-3122})
              /\ e.pushed[2] <= 1
    /\ \A c \in Range(theLambdas) :
          /\ c.pdgId \in {3122, -3122}
          /\ c.pdgId = 3122 <=>
                Mag2(Momentum(DaughterOf(c, 1))) > Mag2(Momentum(DaughterOf(c, -1)))
          /\ c.pdgId = 3122 => HasMass(DaughterOf(c, 1), protonMassSquared)
          /\ c.pdgId = -3122 => HasMass(DaughterOf(c, -1), protonMassSquared)
    /\ \A i, j \in 1..Len(theLambdas) :
          (i # j) =>
              {theLambdas[i].daughters[k].track : k \in 1..2}
                  # {theLambdas[j].daughters[k].track : k \in 1..2}

\* C8 witness: a pair whose daughters have momenta of equal magnitude built the
\* anti-Lambda and pushed it
C8_Witness ==
    /\ \E e \in Range(log) : /\ e.stage = "built"
                             /\ Mag2(e.positiveP) = Mag2(e.negativeP)
                             /\ -3122 \in e.built
                             /\ e.pushed[2] = 1
    /\ \E c \in Range(theLambdas) : c.pdgId = -3122

----------------------------------------------------------------------------
\* the rest masses (squared) a hypothesis assigns to its positive and negative daughter
HypothesisMasses(id) ==
    IF id = 310 THEN <<piMassSquared, piMassSquared>>
    ELSE IF id = 3122 THEN <<protonMassSquared, piMassSquared>>
    ELSE IF id = -3122 THEN <<piMassSquared, protonMassSquared>>
    ELSE IF id = 421 THEN <<piMassSquared, kaonMassSquared>>
    ELSE <<kaonMassSquared, piMassSquared>>

\* C9: every candidate of the three collections has exactly two daughters, one of each
\* charge; its 4-momentum is the component-wise sum of theirs; and each daughter's
\* energy is that of its momentum under the rest mass its hypothesis assigns
\* (pi/pi for 310, p/pi for +-3122, K/pi for +-421).
C9_FourMomentumIsDaughterSum ==
    \A c \in Candidates :
        /\ c.pdgId \in {310, 3122, -3122, 421, -421}
        /\ Len(c.daughters) = 2
        /\ {c.daughters[1].charge, c.daughters[2].charge} = {1, -1}
        /\ c.p4 = P4Add(c.daughters[1].p4, c.daughters[2].p4)
        /\ HasMass(DaughterOf(c, 1), HypothesisMasses(c.pdgId)[1])
        /\ HasMass(DaughterOf(c, -1), HypothesisMasses(c.pdgId)[2])

\* C9 witness: a call has pushed a D0 and an anti-D0
C9_Witness ==
    /\ \E c \in Range(theD0s) : c.pdgId = 421
    /\ \E c \in Range(theD0s) : c.pdgId = -421

----------------------------------------------------------------------------
\* the position of a track key in theTrackRefs
IndexOf(key) == CHOOSE i \in 1..Len(theTrackRefs) : theTrackRefs[i] = key

\* the pair <<i, j>>, i < j, of loop indices that a candidate was built from
PairOf(c) ==
    LET a == IndexOf(c.daughters[1].track)
        b == IndexOf(c.daughters[2].track)
    IN  IF a < b THEN <<a, b>> ELSE <<b, a>>

LexLE(p, q) == p[1] < q[1] \/ (p[1] = q[1] /\ p[2] <= q[2])

LexLT(p, q) == p[1] < q[1] \/ (p[1] = q[1] /\ p[2] < q[2])

InDiscoveryOrder(coll) ==
    \A m, n \in 1..Len(coll) : m < n => LexLE(PairOf(coll[m]), PairOf(coll[n]))

IsPrefix(q, r) == Len(q) <= Len(r) /\ \A i \in 1..Len(q) : r[i] = q[i]

\* C10: during a call each collection only grows at its end; its candidates are in
\* the order of the pair enumeration (outer index ascending, inner index ascending and
\* greater than the outer); the pairs are visited in that order, each once, and all of
\* them by the time the call returns; a pair's D0 precedes its anti-D0 in theD0s.
C10_DiscoveryOrder ==
    /\ [](/\ InDiscoveryOrder(theKshorts)
          /\ InDiscoveryOrder(theLambdas)
          /\ InDiscoveryOrder(theD0s)
          /\ \A m, n \in 1..Len(theD0s) :
                (m < n /\ PairOf(theD0s[m]) = PairOf(theD0s[n]))
                    => (theD0s[m].pdgId = 421 /\ theD0s[n].pdgId = -421)
          /\ \A m \in 1..Len(log) :
                /\ log[m].pair[1] < log[m].pair[2]
                /\ log[m].pair[2] <= Len(theTrackRefs)
                /\ \A n \in 1..Len(log) : m < n => LexLT(log[m].pair, log[n].pair)
          /\ (pc = "returned" /\ Len(event.tracks) > 0) =>
                {log[m].pair : m \in 1..Len(log)} =
                    {<<i, j>> \in (1..Len(theTrackRefs)) \X (1..Len(theTrackRefs)) : i < j})
    /\ [][pc # "returned" => /\ IsPrefix(theKshorts, theKshorts')
                             /\ IsPrefix(theLambdas, theLambdas')
                             /\ IsPrefix(theD0s, theD0s')]_vars

\* C10 witness: two pairs of one call each pushed a D0 and an anti-D0
C10_Witness ==
    /\ pc = "returned"
    /\ Len(theD0s) = 4
    /\ PairOf(theD0s[1]) # PairOf(theD0s[3])

----------------------------------------------------------------------------
\* the steps of fitAll are the steps that change the control position
ControlAdvancesWithFitAll ==
    [][FitAllStep <=> (pc # "returned" /\ <<pc', trdx1', trdx2'>> # <<pc, trdx1, trdx2>>)]_vars

\* every pair <<i, j>>, i < j, of loop indices an event of MaxTracks tracks can have
PairsUpTo == {q \in (1..MaxTracks) \X (1..MaxTracks) : q[1] < q[2]}

\* the pair after p in the enumeration over n preselected tracks
PairAfter(p, n) == IF p[2] < n THEN <<p[1], p[2] + 1>> ELSE <<p[1] + 1, p[1] + 2>>

RECURSIVE PushedUpTo(_, _)
PushedUpTo(m, k) == IF m = 0 THEN 0 ELSE PushedUpTo(m - 1, k) + log[m].pushed[k]

\* this step abandons the pair in hand
PairFails == Len(log') = Len(log) + 1 /\ log'[Len(log')].stage # "built"

\* an earlier pair than q was abandoned in this call, and q is a pair of the call
FailedBefore(q) ==
    /\ q[2] <= Len(theTrackRefs)
    /\ \E e \in Range(log) : e.stage # "built" /\ LexLT(e.pair, q)

Examined(q) == \E e \in Range(log) : e.pair = q

\* C11: a pair's failure is a local skip. The step that abandons a pair, at whatever
\* stage, leaves the output collections as they were and moves the loops to the next
\* pair of the enumeration, or returns when the pair was the last one; the collections
\* hold exactly what the pairs examined so far pushed, and within a call they only
\* grow at their end; every pair after an abandoned one has been examined when the
\* call has returned; no pair is examined twice; and a call of fitAll always returns,
\* with every pair i < j of preselected tracks examined.
C11_FailureIsLocalSkip ==
    /\ [][PairFails =>
            LET p == log'[Len(log')].pair
                n == Len(theTrackRefs)
            IN  /\ theKshorts' = theKshorts
                /\ theLambdas' = theLambdas
                /\ theD0s' = theD0s
                /\ theTrackRefs' = theTrackRefs
                /\ IF p = <<n - 1, n>> THEN pc' = "returned"
                   ELSE pc' = "pairs" /\ <<trdx1', trdx2'>> = PairAfter(p, n)]_vars
    /\ [](/\ Len(theKshorts) = PushedUpTo(Len(log), 1)
          /\ Len(theLambdas) = PushedUpTo(Len(log), 2)
          /\ Len(theD0s) = PushedUpTo(Len(log), 3))
    /\ [](\A q \in PairsUpTo :
            (FailedBefore(q) /\ pc = "returned") => Examined(q))
    /\ [](\A m, n \in 1..Len(log) : log[m].pair = log[n].pair => m = n)
    /\ []((pc = "returned" /\ Len(event.tracks) > 0) =>
            \A q \in PairsUpTo : q[2] <= Len(theTrackRefs) => Examined(q))
    /\ [][pc # "returned" => /\ IsPrefix(theKshorts, theKshorts')
                             /\ IsPrefix(theLambdas, theLambdas')
                             /\ IsPrefix(theD0s, theD0s')]_vars
    /\ []<>(pc = "returned")

\* C11 witness: the first pair pushed a candidate, the second was abandoned after the
\* charge test, the third was still examined, and the first pair's candidate is there
\* when the call has returned
C11_Witness ==
    /\ pc = "returned"
    /\ Len(log) = 3
    /\ log[1].stage = "built" /\ log[1].pushed[1] > 0
    /\ log[2].stage \notin {"built", "charge"}
    /\ log[3].pair = <<2, 3>>
    /\ Len(theKshorts) >= log[1].pushed[1]

====
